---- MODULE Spec2Model ----
(***************************************************************************)
(* Model of src/main.py: the yt-dlp download orchestration of the          *)
(* "YouTube Saver" program.  One consumer (the render loop calling         *)
(* ui_pump, and the button callbacks) and the daemon threads started by    *)
(* on_start_download, which run downloader_worker and, inside yt-dlp's     *)
(* download(), progress_hook.                                              *)
(*                                                                         *)
(* Strings are sequences of tokens, so that strip(), "+" in fmt and the    *)
(* "\n" joining of append_log are computed and not assumed.  Floats are    *)
(* exact fractions [num, den] with den > 0.  None is the empty set and a   *)
(* present value v is {v} (the dict.get results of progress_hook).         *)
(***************************************************************************)
EXTENDS Integers, Sequences, FiniteSets, TLC

\* ------------------------------------------------------------- bounds
\* Threads the model lets on_start_download launch.
MaxDownloads == 2
\* Progress callbacks the collaborator makes during one download().
MaxCallbacks == 1
\* Rejected start() calls and cancel() calls the user makes.
MaxRejects == 1
MaxCancels == 1
\* Downloads a behaviour of the liveness specification launches.
LiveDownloads == 1

\* ui_pump's 0.15 s rate limit, in clock ticks of 0.15 s.
PumpInterval == 1

Threads == 1..MaxDownloads

\* ------------------------------------------------------------- values
None == {}
Truthy(x) == x # None /\ x # {0}
\* Truthiness of an optional string.
TruthyStr(x) == x # None /\ x # {""}
Val(x) == CHOOSE v \in x : TRUE
\* Python's `a or b` on optional numbers.
Or(a, b) == IF Truthy(a) THEN a ELSE b

Frac(n, d) == [num |-> n, den |-> d]
FracLess(a, b) == a.num * b.den < b.num * a.den
\* Python's min(a, b) and max(a, b): the first argument unless the second
\* is strictly smaller (larger).
PyMin(a, b) == IF FracLess(b, a) THEN b ELSE a
PyMax(a, b) == IF FracLess(a, b) THEN b ELSE a
Zero == Frac(0, 1)
One == Frac(1, 1)

Whitespace == {" ", "\t", "\n"}
RECURSIVE LStrip(_)
LStrip(s) == IF s # <<>> /\ Head(s) \in Whitespace THEN LStrip(Tail(s)) ELSE s
RECURSIVE RStrip(_)
RStrip(s) ==
    IF s # <<>> /\ s[Len(s)] \in Whitespace
    THEN RStrip(SubSeq(s, 1, Len(s) - 1))
    ELSE s
\* str.strip()
Strip(s) == RStrip(LStrip(s))

\* `tok in s` for a tokenised string
Contains(s, tok) == \E i \in DOMAIN s : s[i] = tok

Last(s) == s[Len(s)]

\* ------------------------------------------------------------- inputs
\* Values of the url and output-folder text boxes.
Urls == {<<>>, <<" ">>, <<" ", "u">>}
OutDirs == {<<>>, <<" ">>, <<"d">>, <<"x">>}
\* The directories that exist (os.path.isdir).
ExistingDirs == {<<"d">>}
isdir(p) == p \in ExistingDirs

\* Items of the two combo boxes.
OutTypes == {"Video (MP4)", "Audio (MP3)", "Best (Original)"}
Qualities == {"Best", "1080p", "720p", "480p", "360p", "Audio only"}

\* Status records yt-dlp may pass to progress_hook: no sizes known, an
\* estimate only and more bytes than it (malformed), 50 of 200 bytes with
\* speed and eta, a finished file, and a status the hook ignores.
Status(st, total, estimate, downloaded, speed, eta, filename) ==
    [status |-> st, total_bytes |-> total, total_bytes_estimate |-> estimate,
     downloaded_bytes |-> downloaded, speed |-> speed, eta |-> eta, filename |-> filename]

StatusRecords ==
    { Status("downloading", None, None, None, None, None, None),
      Status("downloading", None, {200}, {300}, None, None, None),
      Status("downloading", {200}, None, {50}, {2097152}, {7}, None),
      Status("finished", None, None, None, None, None, {"f.mp4"}),
      Status("error", None, None, None, None, None, None) }

\* Exceptions download() may raise by itself (not through the hook).
CollabErrors ==
    { [cls |-> "DownloadError", msg |-> <<"ERROR: unable to download">>],
      [cls |-> "Exception", msg |-> <<"boom">>] }

\* What progress_hook raises when the cancellation flag is set.
CancelledByUser == [cls |-> "DownloadError", msg |-> <<"Cancelled by user">>]

VARIABLES
    ui_update_queue,   \* queue.Queue of events, worker -> ui_pump
    cancel_event,      \* threading.Event
    pump_age,          \* now - last_pump_time, in ticks, saturated at PumpInterval
    start_enabled,     \* TAG_START_BTN enabled
    cancel_enabled,    \* TAG_CANCEL_BTN enabled
    progress_bar,      \* TAG_PROGRESS_BAR value
    overlay,           \* TAG_PROGRESS_BAR overlay
    log_box,           \* TAG_LOG_BOX value
    download_thread,   \* the thread started last (0: None)
    threads,           \* every thread: its position in downloader_worker and locals
    enqueued,          \* history: the events put on the queue since the last launch
    applied,           \* history: the events ui_pump applied since the last launch
    rejects,           \* history: rejected start() calls
    cancels            \* history: cancel() calls

vars == <<ui_update_queue, cancel_event, pump_age, start_enabled,
          cancel_enabled, progress_bar, overlay, log_box, download_thread,
          threads, enqueued, applied, rejects, cancels>>

ui == <<start_enabled, cancel_enabled, progress_bar, overlay, log_box>>
hist == <<rejects, cancels>>

\* ------------------------------------------------------------- events
LogEvt(text) == [type |-> "log", text |-> text]
ProgressEvt(percent, text) == [type |-> "progress", percent |-> percent, text |-> text]
DoneEvt(ok) == [type |-> "done", ok |-> ok]

\* ------------------------------------------------- Format Policy Resolver
Get(d, k) == IF k \in DOMAIN d THEN d[k] ELSE None

quality_heights ==
    ("Best" :> None) @@ ("1080p" :> {1080}) @@ ("720p" :> {720}) @@
    ("480p" :> {480}) @@ ("360p" :> {360}) @@ ("Audio only" :> None)

\* f"[height<={max_h}]"
HeightCap(max_h) == <<"[height<=", ToString(Val(max_h)), "]">>

\* build_format_string without its audio-only special case.
build_format_string_no_audio_case(video_quality, force_mp4, have_ffmpeg) ==
    LET max_h == Get(quality_heights, video_quality) IN
    IF force_mp4
    THEN IF ~have_ffmpeg
         THEN <<<<"best", "[ext=mp4]">> \o (IF max_h = None THEN <<>> ELSE HeightCap(max_h))
                \o <<"/", "best">>, <<>>>>
         ELSE <<<<"bestvideo", "[ext=mp4]">> \o (IF max_h = None THEN <<>> ELSE HeightCap(max_h))
                \o <<"+", "bestaudio", "[ext=m4a]", "/", "best", "[ext=mp4]">>,
                ("merge_output_format" :> "mp4")>>
    ELSE IF max_h = None
         THEN <<<<"bestvideo", "+", "bestaudio", "/", "best">>, <<>>>>
         ELSE <<<<"bestvideo">> \o HeightCap(max_h) \o <<"+", "bestaudio", "/", "best">>
                \o HeightCap(max_h), <<>>>>

\* build_format_string that never caps the height.
build_format_string_uncapped(video_quality, force_mp4, have_ffmpeg) ==
    IF video_quality = "Audio only"
    THEN <<<<"bestaudio", "/", "best">>, <<>>>>
    ELSE build_format_string_no_audio_case("Best", force_mp4, have_ffmpeg)

\* build_format_string: <<format_selector, extra_opts>>
build_format_string(video_quality, force_mp4, have_ffmpeg) ==
    LET extra_opts == <<>>
        max_h == Get(quality_heights, video_quality)
    IN
    IF video_quality = "Audio only"
    THEN <<<<"bestaudio", "/", "best">>, extra_opts>>
    ELSE IF force_mp4
    THEN LET v_sel == IF max_h = None
                      THEN <<"bestvideo", "[ext=mp4]">>
                      ELSE <<"bestvideo", "[ext=mp4]">> \o HeightCap(max_h)
             a_sel == <<"bestaudio", "[ext=m4a]">>
             fmt == v_sel \o <<"+">> \o a_sel \o <<"/", "best", "[ext=mp4]">>
         IN
         IF ~have_ffmpeg
         THEN IF max_h = None
              THEN <<<<"best", "[ext=mp4]", "/", "best">>, extra_opts>>
              ELSE <<<<"best", "[ext=mp4]">> \o HeightCap(max_h) \o <<"/", "best">>,
                     extra_opts>>
         ELSE <<fmt, ("merge_output_format" :> "mp4") @@ extra_opts>>
    ELSE IF max_h = None
    THEN <<<<"bestvideo", "+", "bestaudio", "/", "best">>, extra_opts>>
    ELSE <<<<"bestvideo">> \o HeightCap(max_h) \o <<"+", "bestaudio", "/", "best">>
           \o HeightCap(max_h), extra_opts>>

\* os.path.join(out_dir, "%(title)s-%(id)s.%(ext)s")
OutTmpl(out_dir) ==
    (IF out_dir # <<>> /\ Last(out_dir) # "/" THEN out_dir \o <<"/">> ELSE out_dir)
    \o <<"%(title)s-%(id)s.%(ext)s">>

\* The options every download gets (the hook itself is progress_hook below).
BaseOpts(out_dir) ==
    [quiet |-> TRUE, no_warnings |-> TRUE, progress_hooks |-> <<"progress_hook">>,
     outtmpl |-> OutTmpl(out_dir), noprogress |-> TRUE, continuedl |-> TRUE,
     consoletitle |-> FALSE, socket_timeout |-> 30, retries |-> 3,
     fragment_retries |-> 3, http_chunk_size |-> 10485760]

Mp3Postprocessors ==
    << [key |-> "FFmpegExtractAudio", preferredcodec |-> "mp3", preferredquality |-> "0"] >>

\* make_ydl_opts asking for the mp3 transcoding whether or not ffmpeg is there.
make_ydl_opts_mp3_always(url, out_dir, out_type, quality, have_ffmpeg) ==
    IF out_type = "Audio (MP3)"
    THEN [opts |-> ("postprocessors" :> Mp3Postprocessors)
                   @@ ("format" :> <<"bestaudio", "/", "best">>) @@ BaseOpts(out_dir),
          puts |-> <<>>]
    ELSE LET r == build_format_string(quality, out_type = "Video (MP4)", have_ffmpeg)
         IN [opts |-> ("format" :> r[1]) @@ r[2] @@ BaseOpts(out_dir), puts |-> <<>>]

\* make_ydl_opts: [opts |-> the options dict, puts |-> the events it enqueues].
\* have_ffmpeg is what is_ffmpeg_available() answers at the call.
make_ydl_opts(url, out_dir, out_type, quality, have_ffmpeg) ==
    LET ydl_opts == BaseOpts(out_dir) IN
    IF out_type = "Video (MP4)"
    THEN LET r == build_format_string(quality, TRUE, have_ffmpeg)
             fmt == r[1]
             extra == r[2]
         IN [opts |-> ("format" :> fmt) @@ extra @@ ydl_opts,
             puts |-> IF ~have_ffmpeg /\ Contains(fmt, "+")
                      THEN <<LogEvt(<<"FFmpeg not found; falling back to single-file MP4 if possible.">>)>>
                      ELSE <<>>]
    ELSE IF out_type = "Audio (MP3)"
    THEN IF have_ffmpeg
         THEN [opts |-> ("postprocessors" :> Mp3Postprocessors)
                        @@ ("format" :> <<"bestaudio", "/", "best">>) @@ ydl_opts,
               puts |-> <<>>]
         ELSE [opts |-> ("format" :> <<"bestaudio", "/", "best">>) @@ ydl_opts,
               puts |-> <<LogEvt(<<"FFmpeg not found; saving best audio without MP3 conversion.">>)>>]
    ELSE IF out_type = "Best (Original)"
    THEN LET r == build_format_string(quality, FALSE, have_ffmpeg)
         IN [opts |-> ("format" :> r[1]) @@ r[2] @@ ydl_opts, puts |-> <<>>]
    ELSE [opts |-> ("format" :> <<"bestvideo", "+", "bestaudio", "/", "best">>) @@ ydl_opts,
          puts |-> <<>>]

\* --------------------------------------------------------------- state
\* A thread that was not started yet.  url .. ydl_opts are the locals of
\* downloader_worker, kept until line 187 hands them to yt-dlp (nothing reads
\* them afterwards).  The fields from hook_calls on are history:
\*   hook_calls     progress callbacks made so far in this download
\*   hook_puts      events those callbacks enqueued
\*   start_cancels  the number of cancel() calls when the thread was launched
\*   early          the first callback came after a cancel() of this download
\*   outcome        how download() ended: "returned" | "aborted" (the hook
\*                  raised on the flag) | "raised" (yt-dlp raised by itself)
\*   dones          the ok of every Done event the thread enqueued
Unborn ==
    [pc |-> "unborn", url |-> <<>>, out_dir |-> <<>>, out_type |-> "", quality |-> "",
     have_ffmpeg |-> FALSE, ydl_opts |-> <<>>,
     hook_calls |-> 0, hook_puts |-> 0, start_cancels |-> 0, early |-> FALSE,
     outcome |-> "", dones |-> <<>>]

Init ==
    /\ ui_update_queue = <<>>
    /\ cancel_event = FALSE
    /\ pump_age \in 0..PumpInterval
    /\ start_enabled = TRUE
    /\ cancel_enabled = FALSE
    /\ progress_bar = Zero
    /\ overlay = <<"Idle">>
    /\ log_box = <<>>
    /\ download_thread = 0
    /\ threads = [t \in Threads |-> Unborn]
    /\ enqueued = <<>>
    /\ applied = <<>>
    /\ rejects = 0
    /\ cancels = 0

\* ui_update_queue.put(e) for each e of evts, in order
Put(evts) ==
    /\ ui_update_queue' = ui_update_queue \o evts
    /\ enqueued' = enqueued \o evts

\* What a step of a worker thread leaves alone.
consumer_state == <<cancel_event, pump_age, ui, download_thread, applied, hist>>

\* --------------------------------------------------- downloader_worker
\* Line 184: ydl_opts = make_ydl_opts(...)
worker_make_opts(t) ==
    /\ threads[t].pc = "make_opts"
    /\ \E have_ffmpeg \in BOOLEAN :
         LET me == threads[t]
             r == make_ydl_opts(me.url, me.out_dir, me.out_type, me.quality, have_ffmpeg)
         IN /\ Put(r.puts)
            /\ threads' = [threads EXCEPT ![t].pc = "starting",
                                          ![t].have_ffmpeg = have_ffmpeg,
                                          ![t].ydl_opts = r.opts]
    /\ UNCHANGED consumer_state

\* Lines 186-187 without the "Starting" log of line 185.
worker_starting_no_log(t) ==
    /\ threads[t].pc = "starting"
    /\ threads' = [threads EXCEPT ![t] =
            [Unborn EXCEPT !.pc = "download",
                           !.start_cancels = threads[t].start_cancels]]
    /\ UNCHANGED <<ui_update_queue, enqueued, consumer_state>>

\* Lines 185-187: the "Starting" log, then into yt-dlp's download().
worker_starting(t) ==
    /\ threads[t].pc = "starting"
    /\ Put(<<LogEvt(<<"Starting: ">> \o threads[t].url)>>)
    /\ threads' = [threads EXCEPT ![t] =
            [Unborn EXCEPT !.pc = "download",
                           !.start_cancels = threads[t].start_cancels]]
    /\ UNCHANGED consumer_state

\* Lines 189-190 and 192-193 without the Done that follows the log.
handle_exception_no_done(t, me, e, how) ==
    /\ Put(<<LogEvt((IF e.cls = "DownloadError" THEN <<"Cancelled: ">> ELSE <<"Error: ">>)
                    \o e.msg)>>)
    /\ threads' = [threads EXCEPT ![t] =
            [me EXCEPT !.pc = "terminated", !.outcome = how,
                       !.hook_calls = 0, !.hook_puts = 0, !.start_cancels = 0]]

\* Lines 189-190 and 192-193: download() raised e on thread t, whose record
\* is me; the except clause that matches e logs it.  how is the outcome
\* recorded for the thread.
handle_exception(t, me, e, how) ==
    /\ Put(<<LogEvt((IF e.cls = "DownloadError" THEN <<"Cancelled: ">> ELSE <<"Error: ">>)
                    \o e.msg)>>)
    /\ threads' = [threads EXCEPT ![t] = [me EXCEPT !.pc = "done_fail", !.outcome = how]]

\* Lines 191 and 194
worker_done_fail(t) ==
    /\ threads[t].pc = "done_fail"
    /\ Put(<<DoneEvt(FALSE)>>)
    /\ threads' = [threads EXCEPT ![t].pc = "terminated", ![t].dones = Append(@, FALSE),
                                  ![t].hook_calls = 0, ![t].hook_puts = 0,
                                  ![t].start_cancels = 0]
    /\ UNCHANGED consumer_state

\* ------------------------------------------------------- progress_hook
\* f"{percent*100:.1f}%"
PercentText(percent) ==
    LET x == (percent.num * 1000 + percent.den \div 2) \div percent.den
    IN <<ToString(x \div 10), ".", ToString(x % 10), "%">>

\* f" | {speed/1024/1024:.2f} MB/s" if speed else ""
SpeedText(speed) ==
    IF Truthy(speed)
    THEN LET x == (Val(speed) * 100 + 524288) \div 1048576
         IN <<" | ", ToString(x \div 100), ".", ToString((x % 100) \div 10),
              ToString(x % 10), " MB/s">>
    ELSE <<>>

\* f" | ETA: {eta}s" if eta else ""
EtaText(eta) == IF Truthy(eta) THEN <<" | ETA: ", ToString(Val(eta)), "s">> ELSE <<>>

\* The percent as a number of hundredths instead of a fraction of one.
HookPercent_times_100(d) ==
    LET total == Or(Or(d.total_bytes, d.total_bytes_estimate), {0})
        downloaded == Or(d.downloaded_bytes, {0})
    IN IF Truthy(total) /\ Truthy(downloaded)
       THEN Frac(Val(downloaded) * 100, Val(total))
       ELSE Zero

\* The percent progress_hook computes for a "downloading" record.
HookPercent(d) ==
    LET total == Or(Or(d.total_bytes, d.total_bytes_estimate), {0})
        downloaded == Or(d.downloaded_bytes, {0})
    IN IF Truthy(total) /\ Truthy(downloaded)
       THEN Frac(Val(downloaded), Val(total))
       ELSE Zero

\* The history fields of thread t after one more callback.
Called(t) ==
    [threads[t] EXCEPT !.hook_calls = @ + 1,
                       !.early = IF threads[t].hook_calls = 0
                                 THEN cancels > threads[t].start_cancels
                                 ELSE @]

\* Lines 154-179: progress_hook past the flag check.
hook_report(t, d) ==
    IF d.status = "downloading"
    THEN LET percent == HookPercent(d) IN
         /\ Put(<<ProgressEvt(percent,
                    <<"Downloading... ">> \o PercentText(percent)
                    \o SpeedText(d.speed) \o EtaText(d.eta))>>)
         /\ threads' = [threads EXCEPT ![t] = [Called(t) EXCEPT !.hook_puts = @ + 1]]
    ELSE IF d.status = "finished"
    THEN /\ Put(<<LogEvt(<<"Downloaded to: ">>
                    \o (IF TruthyStr(d.filename) THEN <<Val(d.filename)>> ELSE <<>>))>>)
         /\ threads' = [threads EXCEPT ![t] =
                [Called(t) EXCEPT !.pc = "hook_finished", !.hook_puts = @ + 1]]
    ELSE /\ threads' = [threads EXCEPT ![t] = Called(t)]
         /\ UNCHANGED <<ui_update_queue, enqueued>>

\* progress_hook that never looks at the cancellation flag.
progress_hook_no_check(t, d) == hook_report(t, d)

\* progress_hook(d), called by yt-dlp on thread t while it is inside
\* download().  With the flag set it raises DownloadError, which unwinds
\* download() into downloader_worker's except clause.
progress_hook(t, d) ==
    IF cancel_event
    THEN handle_exception(t, Called(t), CancelledByUser, "aborted")
    ELSE hook_report(t, d)

\* Line 179: the second put of the "finished" branch.
progress_hook_finished(t) ==
    /\ threads[t].pc = "hook_finished"
    /\ Put(<<ProgressEvt(One, <<"Download finished">>)>>)
    /\ threads' = [threads EXCEPT ![t].pc = "download", ![t].hook_puts = @ + 1]
    /\ UNCHANGED consumer_state

\* ---------------------------------------------------------- yt-dlp
\* Inside download(): a progress callback.
collab_callback(t) ==
    /\ threads[t].pc = "download"
    /\ threads[t].hook_calls < MaxCallbacks
    /\ \E d \in StatusRecords : progress_hook(t, d)
    /\ UNCHANGED consumer_state

\* download() returns normally, and line 188 enqueues Done{ok}.
collab_returns(t) ==
    /\ threads[t].pc = "download"
    /\ Put(<<DoneEvt(TRUE)>>)
    /\ threads' = [threads EXCEPT ![t].pc = "terminated", ![t].outcome = "returned",
                                  ![t].dones = Append(@, TRUE),
                                  ![t].hook_calls = 0, ![t].hook_puts = 0,
                                  ![t].start_cancels = 0]
    /\ UNCHANGED consumer_state

\* download() raises by itself.
collab_raises(t) ==
    /\ threads[t].pc = "download"
    /\ \E e \in CollabErrors : handle_exception(t, threads[t], e, "raised")
    /\ UNCHANGED consumer_state

downloader_worker(t) ==
    \/ worker_make_opts(t)
    \/ worker_starting(t)
    \/ progress_hook_finished(t)
    \/ worker_done_fail(t)

collaborator(t) == collab_callback(t) \/ collab_returns(t) \/ collab_raises(t)

\* ----------------------------------------------------------- consumer
\* append_log: the new value of the log box
append_log(prev, text) == (IF prev # <<>> THEN prev \o <<"\n">> ELSE <<>>) \o text

\* Lines 211-219: a validation failure logs and returns.
start_rejected(text) ==
    /\ rejects < MaxRejects
    /\ log_box' = append_log(log_box, text)
    /\ rejects' = rejects + 1
    /\ UNCHANGED <<ui_update_queue, cancel_event, pump_age, start_enabled,
                   cancel_enabled, progress_bar, overlay, download_thread, threads,
                   enqueued, applied, cancels>>

\* Lines 221-232 leaving the Start button enabled.
start_dispatched_keeps_start(url, out_dir, out_type, quality) ==
    /\ download_thread < MaxDownloads
    /\ cancel_event' = FALSE
    /\ cancel_enabled' = TRUE
    /\ progress_bar' = Zero
    /\ overlay' = <<"Waiting...">>
    /\ download_thread' = download_thread + 1
    /\ threads' = [threads EXCEPT ![download_thread + 1] =
            [Unborn EXCEPT !.pc = "make_opts", !.url = url, !.out_dir = out_dir,
                           !.out_type = out_type, !.quality = quality,
                           !.start_cancels = cancels]]
    /\ enqueued' = ui_update_queue
    /\ applied' = <<>>
    /\ UNCHANGED <<ui_update_queue, pump_age, start_enabled, log_box, hist>>

\* Lines 221-232 without cancel_event.clear().
start_dispatched_keeps_flag(url, out_dir, out_type, quality) ==
    /\ download_thread < MaxDownloads
    /\ start_enabled' = FALSE
    /\ cancel_enabled' = TRUE
    /\ progress_bar' = Zero
    /\ overlay' = <<"Waiting...">>
    /\ download_thread' = download_thread + 1
    /\ threads' = [threads EXCEPT ![download_thread + 1] =
            [Unborn EXCEPT !.pc = "make_opts", !.url = url, !.out_dir = out_dir,
                           !.out_type = out_type, !.quality = quality,
                           !.start_cancels = cancels]]
    /\ enqueued' = ui_update_queue
    /\ applied' = <<>>
    /\ UNCHANGED <<ui_update_queue, cancel_event, pump_age, log_box, hist>>

\* Lines 221-232: reset the state and launch the worker thread.
start_dispatched(url, out_dir, out_type, quality) ==
    /\ download_thread < MaxDownloads
    /\ cancel_event' = FALSE
    /\ start_enabled' = FALSE
    /\ cancel_enabled' = TRUE
    /\ progress_bar' = Zero
    /\ overlay' = <<"Waiting...">>
    /\ download_thread' = download_thread + 1
    /\ threads' = [threads EXCEPT ![download_thread + 1] =
            [Unborn EXCEPT !.pc = "make_opts", !.url = url, !.out_dir = out_dir,
                           !.out_type = out_type, !.quality = quality,
                           !.start_cancels = cancels]]
    /\ enqueued' = ui_update_queue
    /\ applied' = <<>>
    /\ UNCHANGED <<ui_update_queue, pump_age, log_box, hist>>

\* on_start_download whose last validation forgets to return.
on_start_download_no_return(url_in, out_type, quality, out_dir_in) ==
    LET url == Strip(url_in)
        out_dir == Strip(out_dir_in)
    IN
    IF url = <<>> THEN start_rejected(<<"Please enter a URL.">>)
    ELSE IF out_dir = <<>> THEN start_rejected(<<"Please choose an output folder.">>)
    ELSE /\ download_thread < MaxDownloads
         /\ rejects < MaxRejects
         /\ rejects' = IF isdir(out_dir) THEN rejects ELSE rejects + 1
         /\ log_box' = IF isdir(out_dir) THEN log_box
                       ELSE append_log(log_box, <<"Output folder does not exist.">>)
         /\ cancel_event' = FALSE
         /\ start_enabled' = FALSE
         /\ cancel_enabled' = TRUE
         /\ progress_bar' = Zero
         /\ overlay' = <<"Waiting...">>
         /\ download_thread' = download_thread + 1
         /\ threads' = [threads EXCEPT ![download_thread + 1] =
                 [Unborn EXCEPT !.pc = "make_opts", !.url = url, !.out_dir = out_dir,
                                !.out_type = out_type, !.quality = quality,
                                !.start_cancels = cancels]]
         /\ enqueued' = ui_update_queue
         /\ applied' = <<>>
         /\ UNCHANGED <<ui_update_queue, pump_age, cancels>>

\* on_start_download clearing the flag before it validates the request.
on_start_download_clears_first(url_in, out_type, quality, out_dir_in) ==
    LET url == Strip(url_in)
        out_dir == Strip(out_dir_in)
    IN
    IF url = <<>> \/ out_dir = <<>> \/ ~isdir(out_dir)
    THEN /\ rejects < MaxRejects
         /\ cancel_event' = FALSE
         /\ log_box' = append_log(log_box, <<"Please enter a URL.">>)
         /\ rejects' = rejects + 1
         /\ UNCHANGED <<ui_update_queue, pump_age, start_enabled,
                        cancel_enabled, progress_bar, overlay, download_thread, threads,
                        enqueued, applied, cancels>>
    ELSE start_dispatched(url, out_dir, out_type, quality)

\* on_start_download, with the values of the four input widgets.
on_start_download(url_in, out_type, quality, out_dir_in) ==
    LET url == Strip(url_in)
        out_dir == Strip(out_dir_in)
    IN
    IF url = <<>> THEN start_rejected(<<"Please enter a URL.">>)
    ELSE IF out_dir = <<>> THEN start_rejected(<<"Please choose an output folder.">>)
    ELSE IF ~isdir(out_dir) THEN start_rejected(<<"Output folder does not exist.">>)
    ELSE start_dispatched(url, out_dir, out_type, quality)

\* on_cancel_download that also disables the Cancel button.
on_cancel_download_disables ==
    /\ cancels < MaxCancels
    /\ cancel_event' = TRUE
    /\ cancel_enabled' = FALSE
    /\ log_box' = append_log(log_box, <<"Cancelling...">>)
    /\ cancels' = cancels + 1
    /\ UNCHANGED <<ui_update_queue, pump_age, start_enabled,
                   progress_bar, overlay, download_thread, threads, enqueued, applied,
                   rejects>>

\* on_cancel_download
on_cancel_download ==
    /\ cancels < MaxCancels
    /\ cancel_event' = TRUE
    /\ log_box' = append_log(log_box, <<"Cancelling...">>)
    /\ cancels' = cancels + 1
    /\ UNCHANGED <<ui_update_queue, pump_age, start_enabled, cancel_enabled,
                   progress_bar, overlay, download_thread, threads, enqueued, applied,
                   rejects>>

\* Dear PyGui runs a button's callback only while the button is enabled
\* (lines 322-323: Start is created enabled, Cancel disabled).
StartClick ==
    /\ start_enabled
    /\ \E url_in \in Urls, out_type \in OutTypes, quality \in Qualities, out_dir_in \in OutDirs :
         on_start_download(url_in, out_type, quality, out_dir_in)

CancelClick == cancel_enabled /\ on_cancel_download

\* time.perf_counter() advances by one tick.
Tick ==
    /\ pump_age < PumpInterval
    /\ pump_age' = pump_age + 1
    /\ UNCHANGED <<ui_update_queue, cancel_event, ui, download_thread, threads,
                   enqueued, applied, hist>>

\* Line 260 without the clamp.
Clamp_none(percent) == percent

\* Line 260: max(0.0, min(1.0, float(percent)))
Clamp(percent) == PyMax(Zero, PyMin(One, percent))

\* The widgets ui_pump writes, as one record.
Widgets ==
    [start_enabled |-> start_enabled, cancel_enabled |-> cancel_enabled,
     progress_bar |-> progress_bar, overlay |-> overlay, log_box |-> log_box]

\* Lines 264-269 with the buttons reset only after a successful download.
apply_event_done_ok_only(w, evt) ==
    IF evt.type = "log"
    THEN [w EXCEPT !.log_box = append_log(@, evt.text)]
    ELSE IF evt.type = "progress"
    THEN [w EXCEPT !.progress_bar = Clamp(evt.percent), !.overlay = evt.text]
    ELSE IF evt.type = "done" /\ evt.ok
    THEN [w EXCEPT !.log_box = append_log(@, <<"All tasks completed.">>),
                   !.start_enabled = TRUE, !.cancel_enabled = FALSE]
    ELSE w

\* Lines 264-269 without line 269: Cancel stays enabled after a Done.
apply_event_keeps_cancel(w, evt) ==
    IF evt.type = "log"
    THEN [w EXCEPT !.log_box = append_log(@, evt.text)]
    ELSE IF evt.type = "progress"
    THEN [w EXCEPT !.progress_bar = Clamp(evt.percent), !.overlay = evt.text]
    ELSE IF evt.type = "done"
    THEN [w EXCEPT !.log_box = IF evt.ok
                                THEN append_log(@, <<"All tasks completed.">>)
                                ELSE @,
                   !.start_enabled = TRUE]
    ELSE w

\* Lines 257-269: the widgets after one event is applied to widgets w.
apply_event(w, evt) ==
    IF evt.type = "log"
    THEN [w EXCEPT !.log_box = append_log(@, evt.text)]
    ELSE IF evt.type = "progress"
    THEN [w EXCEPT !.progress_bar = Clamp(evt.percent), !.overlay = evt.text]
    ELSE IF evt.type = "done"
    THEN [w EXCEPT !.log_box = IF evt.ok
                                THEN append_log(@, <<"All tasks completed.">>)
                                ELSE @,
                   !.start_enabled = TRUE, !.cancel_enabled = FALSE]
    ELSE w

\* The drain loop skipping a progress event that has newer events behind it.
RECURSIVE ui_pump_loop_coalescing(_)
ui_pump_loop_coalescing(c) ==
    IF c.queue = <<>> THEN c
    ELSE IF Head(c.queue).type = "progress" /\ Len(c.queue) > 1
    THEN ui_pump_loop_coalescing([c EXCEPT !.queue = Tail(@)])
    ELSE ui_pump_loop_coalescing(
            [w |-> apply_event(c.w, Head(c.queue)),
             queue |-> Tail(c.queue),
             applied |-> Append(c.applied, Head(c.queue))])

\* Lines 254-271: get_nowait() and apply until queue.Empty.  c is the
\* widgets, the queue and the events applied so far.
RECURSIVE ui_pump_loop(_)
ui_pump_loop(c) ==
    IF c.queue = <<>> THEN c
    ELSE ui_pump_loop(
            [w |-> apply_event(c.w, Head(c.queue)),
             queue |-> Tail(c.queue),
             applied |-> Append(c.applied, Head(c.queue))])

\* Lines 249-251: called too soon after the last run, ui_pump returns.
ui_pump_throttled ==
    /\ pump_age < PumpInterval
    /\ UNCHANGED vars

\* Lines 252-271: last_pump_time = now, then the drain.
ui_pump_run ==
    /\ ~(pump_age < PumpInterval)
    /\ pump_age' = 0
    /\ \E c \in {ui_pump_loop([w |-> Widgets, queue |-> ui_update_queue, applied |-> applied])} :
          /\ ui_update_queue' = c.queue
          /\ applied' = c.applied
          /\ start_enabled' = c.w.start_enabled
          /\ cancel_enabled' = c.w.cancel_enabled
          /\ progress_bar' = c.w.progress_bar
          /\ overlay' = c.w.overlay
          /\ log_box' = c.w.log_box
    /\ UNCHANGED <<cancel_event, download_thread, threads, enqueued, hist>>

ui_pump == ui_pump_throttled \/ ui_pump_run

Next ==
    \/ StartClick
    \/ CancelClick
    \/ Tick
    \/ ui_pump
    \/ \E t \in Threads : downloader_worker(t)
    \/ \E t \in Threads : collaborator(t)

Spec == Init /\ [][Next]_vars

\* The scheduling the program relies on: the clock advances, the render loop
\* keeps calling ui_pump, every started thread keeps running, and yt-dlp's
\* download() returns or raises once it makes no more callbacks.
Fairness ==
    /\ WF_vars(Tick)
    /\ WF_vars(ui_pump_run)
    /\ \A t \in Threads :
         WF_vars(downloader_worker(t) \/ collab_returns(t) \/ collab_raises(t))

\* The behaviours the liveness check follows: those that launch at most
\* LiveDownloads threads.
LiveNext ==
    \/ StartClick /\ download_thread' <= LiveDownloads
    \/ CancelClick
    \/ Tick
    \/ ui_pump
    \/ \E t \in Threads : downloader_worker(t)
    \/ \E t \in Threads : collaborator(t)

LiveSpec == Init /\ [][LiveNext]_vars /\ Fairness

\* =============================================================== claims
Active(t) == threads[t].pc \notin {"unborn", "terminated"}
Dones(q) == {i \in DOMAIN q : q[i].type = "done"}
\* The number of lines in the log box.
LogLines(box) ==
    IF box = <<>> THEN 0 ELSE 1 + Cardinality({i \in DOMAIN box : box[i] = "\n"})

\* C1: a launched worker enqueues exactly one Done event over its whole run:
\* none while it runs, one once it has ended, with ok = TRUE exactly when
\* download() returned normally and ok = FALSE when the hook aborted it or
\* yt-dlp raised; the Done events on the channel are those its worker put.
C1_ExactlyOneDone ==
    /\ \A t \in Threads :
         LET th == threads[t] IN
         /\ Len(th.dones) <= 1
         /\ th.pc # "terminated" => th.dones = <<>>
         /\ th.pc = "terminated" =>
              /\ th.outcome \in {"returned", "aborted", "raised"}
              /\ th.dones = <<th.outcome = "returned">>
    /\ download_thread > 0 =>
         Cardinality(Dones(enqueued)) = Len(threads[download_thread].dones)

\* Both failure paths have ended with their Done.
C1_Witness ==
    /\ threads[1].pc = "terminated" /\ threads[1].outcome = "aborted"
    /\ threads[1].dones = <<FALSE>>
    /\ threads[2].pc = "terminated" /\ threads[2].outcome = "raised"
    /\ threads[2].dones = <<FALSE>>

\* C2: without ffmpeg, the format expression make_ydl_opts puts in the
\* options never combines two streams (has no "+").
C2_NoMergeWithoutMuxer ==
    \A t \in Threads :
        (threads[t].pc = "starting" /\ ~threads[t].have_ffmpeg)
            => ~Contains(threads[t].ydl_opts["format"], "+")

\* C3: the worker logs "Cancelled: ..." only when the hook aborted the
\* download on the cancellation flag, and "Error: ..." for every failure
\* yt-dlp raises by itself.
C3_CancelledOnlyOnAbort ==
    \A t \in Threads :
        threads[t].pc = "done_fail" =>
            /\ enqueued # <<>>
            /\ Last(enqueued).type = "log"
            /\ Last(enqueued).text[1] = "Cancelled: " <=> threads[t].outcome = "aborted"
            /\ Last(enqueued).text[1] = "Error: " <=> threads[t].outcome = "raised"

\* C4: when cancel() was called after the launch and before the first
\* progress callback, that callback enqueues nothing and aborts, and the
\* download ends with Done{ok=FALSE}.
C4_EarlyCancelAborts ==
    \A t \in Threads :
        threads[t].early =>
            /\ threads[t].outcome = "aborted"
            /\ threads[t].hook_puts = 0
            /\ threads[t].pc \in {"done_fail", "terminated"}
            /\ threads[t].pc = "terminated" => threads[t].dones = <<FALSE>>

C4_Witness ==
    \E t \in Threads : threads[t].early /\ threads[t].pc = "terminated"

\* The request start() rejects: a blank url, a blank folder, or a folder
\* that is no directory.
InvalidRequest(url_in, out_dir_in) ==
    \/ \A i \in DOMAIN url_in : url_in[i] \in Whitespace
    \/ \A i \in DOMAIN out_dir_in : out_dir_in[i] \in Whitespace
    \/ Strip(out_dir_in) \notin ExistingDirs

\* C5: a start() with an invalid request is rejected: it appends exactly one
\* line to the log and changes nothing else (no thread, no event, the flag,
\* the buttons and the progress value as they were); a thread is launched
\* only for a valid request.  rejects counts the start() calls that returned
\* at a validation.
C5_RejectedStartOnlyLogs ==
    [][/\ rejects' # rejects =>
            /\ \E url_in \in Urls, out_dir_in \in OutDirs :
                 /\ InvalidRequest(url_in, out_dir_in)
                 /\ \E out_type \in OutTypes, quality \in Qualities :
                      on_start_download(url_in, out_type, quality, out_dir_in)
            /\ LogLines(log_box') = LogLines(log_box) + 1
            /\ UNCHANGED <<threads, download_thread, ui_update_queue, enqueued,
                           cancel_event, start_enabled, cancel_enabled, progress_bar>>
       /\ download_thread' # download_thread =>
            /\ rejects' = rejects
            /\ ~InvalidRequest(threads'[download_thread'].url,
                               threads'[download_thread'].out_dir)]_vars

C5_Witness ==
    /\ rejects = 1
    /\ LogLines(log_box) = 1
    /\ download_thread = 0
    /\ start_enabled

\* C6: the events ui_pump applied, followed by those still queued, are the
\* events enqueued, in order; and a ui_pump that is not throttled leaves the
\* queue empty, having applied all of it.
C6_FifoNoLoss ==
    /\ [](applied \o ui_update_queue = enqueued)
    /\ [][pump_age' < pump_age =>
            /\ ui_update_queue' = <<>>
            /\ applied' = applied \o ui_update_queue]_vars

C6_Witness ==
    /\ Len(applied) >= 2
    /\ Len(ui_update_queue) >= 2
    /\ \E i \in DOMAIN ui_update_queue : ui_update_queue[i].type = "progress"

\* C7: every launched download has its Done applied: the thread has ended,
\* Start is enabled again and Cancel disabled.
C7_DoneEventuallyApplied ==
    \A t \in Threads :
        (threads[t].pc # "unborn")
            ~> (threads[t].pc = "terminated" /\ start_enabled /\ ~cancel_enabled)

C7_Witness ==
    /\ threads[1].pc = "terminated"
    /\ threads[1].dones = <<FALSE>>
    /\ start_enabled
    /\ ~cancel_enabled

\* C8: at most one worker is active, and while Start is enabled none is and
\* no Done waits in the queue.
C8_SingleWorker ==
    /\ Cardinality({t \in Threads : Active(t)}) <= 1
    /\ start_enabled =>
         /\ \A t \in Threads : ~Active(t)
         /\ Dones(ui_update_queue) = {}

C8_Witness ==
    /\ threads[1].pc = "terminated"
    /\ Active(2)
    /\ ~start_enabled

\* C9: the progress bar's value is within [0, 1].
C9_ProgressInUnitInterval ==
    /\ ~FracLess(progress_bar, Zero)
    /\ ~FracLess(One, progress_bar)

\* The malformed record (300 of 200 bytes) was applied.
C9_Witness ==
    /\ overlay = <<"Downloading... ", "150", ".", "0", "%">>
    /\ progress_bar = One

FallbackLogs ==
    { LogEvt(<<"FFmpeg not found; falling back to single-file MP4 if possible.">>),
      LogEvt(<<"FFmpeg not found; saving best audio without MP3 conversion.">>) }

\* A request whose plan differs when ffmpeg is missing.
FallbackCase(th) ==
    \/ th.out_type = "Video (MP4)" /\ th.quality # "Audio only"
    \/ th.out_type = "Audio (MP3)"

\* C11: when ffmpeg is missing and the request is one that gets a fallback
\* plan ("Video (MP4)" with a quality other than "Audio only", or
\* "Audio (MP3)"), the worker has enqueued an informational log about the
\* fallback by the time make_ydl_opts returned.
C11_FallbackLogged ==
    \A t \in Threads :
        (threads[t].pc = "starting" /\ ~threads[t].have_ffmpeg /\ FallbackCase(threads[t]))
            => \E i \in DOMAIN enqueued : enqueued[i] \in FallbackLogs

\* The height a quality caps the video at, as the text of the cap.
TierCap(quality) ==
    IF quality = "1080p" THEN <<"[height<=", "1080", "]">>
    ELSE IF quality = "720p" THEN <<"[height<=", "720", "]">>
    ELSE IF quality = "480p" THEN <<"[height<=", "480", "]">>
    ELSE IF quality = "360p" THEN <<"[height<=", "360", "]">>
    ELSE <<>>

\* A thread holding the options of a "Video (MP4)" request for a video.
Mp4Request(th) ==
    th.pc = "starting" /\ th.out_type = "Video (MP4)" /\ th.quality # "Audio only"

\* What C12 says of the plan with ffmpeg, and of the merge option.
Mp4MergePlan(th) ==
    /\ th.have_ffmpeg =>
         /\ th.ydl_opts["format"] =
              <<"bestvideo", "[ext=mp4]">> \o TierCap(th.quality)
              \o <<"+", "bestaudio", "[ext=m4a]", "/", "best", "[ext=mp4]">>
         /\ "merge_output_format" \in DOMAIN th.ydl_opts
         /\ th.ydl_opts["merge_output_format"] = "mp4"
    /\ ~th.have_ffmpeg => "merge_output_format" \notin DOMAIN th.ydl_opts
    /\ "merge_output_format" \in DOMAIN th.ydl_opts <=> Contains(th.ydl_opts["format"], "+")

\* C12 as stated: for "Video (MP4)" and a quality other than "Audio only",
\* with ffmpeg the format is the capped mp4 video selector plus the m4a audio
\* selector with an mp4 single-file alternative and merge_output_format is
\* mp4; without ffmpeg the format is only the single-file mp4 selector with
\* the same cap and there is no merge option; the merge option is there
\* exactly when the format combines two streams.
C12_Mp4PlanOnlyMp4 ==
    \A t \in Threads :
        Mp4Request(threads[t]) =>
            /\ Mp4MergePlan(threads[t])
            /\ ~threads[t].have_ffmpeg =>
                 threads[t].ydl_opts["format"] =
                    <<"best", "[ext=mp4]">> \o TierCap(threads[t].quality)

\* C12, amended: as stated, except that without ffmpeg the single-file mp4
\* selector with the cap is followed by the alternative "best", which is
\* neither restricted to mp4 nor capped.
C12_Mp4Plan ==
    \A t \in Threads :
        Mp4Request(threads[t]) =>
            /\ Mp4MergePlan(threads[t])
            /\ ~threads[t].have_ffmpeg =>
                 threads[t].ydl_opts["format"] =
                    <<"best", "[ext=mp4]">> \o TierCap(threads[t].quality)
                    \o <<"/", "best">>

\* The 720p request of the spec's example, without ffmpeg.
C12_Witness ==
    \E t \in Threads :
        /\ Mp4Request(threads[t])
        /\ threads[t].quality = "720p"
        /\ ~threads[t].have_ffmpeg
        /\ ~Contains(threads[t].ydl_opts["format"], "+")

\* C13: the cancellation flag is false right after a dispatched start(); it
\* goes from false to true only by a cancel(), and from true to false only by
\* a dispatched start(), so within one download it rises at most once and
\* never falls.
C13_FlagMonotonic ==
    [][/\ download_thread' # download_thread => ~cancel_event'
       /\ (cancel_event /\ ~cancel_event') => download_thread' = download_thread + 1
       /\ (~cancel_event /\ cancel_event') =>
            /\ cancels' = cancels + 1
            /\ download_thread' = download_thread]_vars

\* The flag set during the first download was cleared by the second start().
C13_Witness ==
    /\ download_thread = 2
    /\ cancels = 1
    /\ ~cancel_event

\* C14: every Progress event put on the queue carries a fraction within
\* [0, 1], whatever status record yt-dlp passed to the hook.
C14_EnqueuedProgressInUnit ==
    \A i \in DOMAIN enqueued :
        enqueued[i].type = "progress" =>
            /\ ~FracLess(enqueued[i].percent, Zero)
            /\ ~FracLess(One, enqueued[i].percent)

\* C15: cancel() sets the flag and appends the line "Cancelling..." to the
\* log, and changes nothing else: not the threads, the queue, the progress
\* bar or the buttons.  A download whose flag is set and whose download()
\* returns without another callback still ends with Done{ok=TRUE}.
C15_CancelOnlySetsFlag ==
    [][/\ cancels' # cancels =>
            /\ cancel_event'
            /\ Len(log_box') > Len(log_box)
            /\ SubSeq(log_box', 1, Len(log_box)) = log_box
            /\ Last(log_box') = "Cancelling..."
            /\ LogLines(log_box') = LogLines(log_box) + 1
            /\ UNCHANGED <<threads, ui_update_queue, enqueued, applied, progress_bar,
                           overlay, start_enabled, cancel_enabled, download_thread,
                           pump_age, rejects>>
       /\ \A t \in Threads :
            (cancel_event /\ threads[t].pc = "download" /\ threads'[t].pc = "terminated") =>
                /\ threads'[t].dones = <<TRUE>>
                /\ Last(ui_update_queue') = DoneEvt(TRUE)]_vars

\* A cancelled download ended with Done{ok=TRUE}.
C15_Witness ==
    \E t \in Threads :
        /\ t = download_thread
        /\ cancels = 1
        /\ cancel_event
        /\ threads[t].pc = "terminated"
        /\ threads[t].dones = <<TRUE>>
        /\ Last(enqueued) = DoneEvt(TRUE)

\* The "Starting: {url}" log of a download.
IsStarting(e) == e.type = "log" /\ e.text # <<>> /\ e.text[1] = "Starting: "

\* C16: events are enqueued only during a download: before the first launch
\* there are none; in a download's events the "Starting" log precedes every
\* Progress event and nothing follows the Done; and an event is enqueued only
\* by a step taken while the launched worker is active.
C16_EventsWithinDownload ==
    /\ [](/\ download_thread = 0 => enqueued = <<>>
          /\ \A i \in DOMAIN enqueued :
               /\ enqueued[i].type = "progress" =>
                    \E j \in 1..(i - 1) : IsStarting(enqueued[j])
               /\ enqueued[i].type = "done" => i = Len(enqueued))
    /\ [][(enqueued' # enqueued /\ download_thread' = download_thread) =>
            /\ \E t \in Threads : t = download_thread /\ Active(t)
            /\ Len(enqueued') > Len(enqueued)
            /\ SubSeq(enqueued', 1, Len(enqueued)) = enqueued]_vars

\* A whole download: the Starting log, the finished file, its Progress, Done.
C16_Witness ==
    /\ Len(enqueued) = 4
    /\ IsStarting(enqueued[1])
    /\ enqueued[3].type = "progress"
    /\ enqueued[4] = DoneEvt(TRUE)
    /\ \A t \in Threads : ~Active(t)

\* C17: for "Audio (MP3)" the format is the best-audio selector whatever the
\* quality, and the options hold the mp3 transcoding directive exactly when
\* ffmpeg is there.
C17_Mp3Plan ==
    \A t \in Threads :
        (threads[t].pc = "starting" /\ threads[t].out_type = "Audio (MP3)") =>
            /\ threads[t].ydl_opts["format"] = <<"bestaudio", "/", "best">>
            /\ "postprocessors" \in DOMAIN threads[t].ydl_opts <=> threads[t].have_ffmpeg
            /\ threads[t].have_ffmpeg =>
                 /\ Len(threads[t].ydl_opts["postprocessors"]) = 1
                 /\ threads[t].ydl_opts["postprocessors"][1].preferredcodec = "mp3"

C17_Witness ==
    \E t \in Threads :
        /\ threads[t].pc = "starting"
        /\ threads[t].out_type = "Audio (MP3)"
        /\ threads[t].quality = "720p"
        /\ threads[t].have_ffmpeg
        /\ "postprocessors" \in DOMAIN threads[t].ydl_opts

\* A byte count that is known and nonzero.
Known(x) == x # None /\ x # {0}
\* The total of a status record: total_bytes, else the estimate.
TotalBytes(d) == IF Known(d.total_bytes) THEN d.total_bytes ELSE d.total_bytes_estimate
\* Fraction p is downloaded/total when both are known and nonzero, else 0.
IsFractionOf(p, d) ==
    IF Known(TotalBytes(d)) /\ Known(d.downloaded_bytes)
    THEN p.num * Val(TotalBytes(d)) = Val(d.downloaded_bytes) * p.den
    ELSE p.num = 0
\* The events a step appended to the history.
NewEvents == SubSeq(enqueued', Len(enqueued) + 1, Len(enqueued'))

C19_OneButtonEnabled == start_enabled <=> ~cancel_enabled

\* The second download runs, after a rejected start() and a cancel().
C19_Witness ==
    /\ download_thread = 2
    /\ rejects = 1
    /\ cancels = 1
    /\ cancel_enabled
    /\ ~start_enabled

\* C20: a cancel() of an earlier download never aborts a later one: while a
\* worker is active the flag is set exactly when cancel() was called since
\* that worker's launch, so the hook aborts a download only then.
C20_CancelDoesNotLeak ==
    \A t \in Threads :
        /\ Active(t) => (cancel_event <=> cancels > threads[t].start_cancels)
        /\ (threads[t].pc = "done_fail" /\ threads[t].outcome = "aborted")
              => cancels > threads[t].start_cancels

\* The first download was cancelled without aborting; the second one's
\* callback reported progress.
C20_Witness ==
    /\ cancels = 1
    /\ threads[1].pc = "terminated"
    /\ threads[1].outcome = "returned"
    /\ threads[2].pc = "download"
    /\ threads[2].start_cancels = 1
    /\ threads[2].hook_calls = 1
    /\ threads[2].hook_puts >= 1

====
